---- MODULE Spec2Model ----
(***************************************************************************)
(* A model of node-ms-passport's native addon layer:                       *)
(*   - the hex codec (string_to_binary / binary_to_string),                *)
(*   - the passport operation wrappers and OperationResult,                *)
(*   - the Napi::AsyncWorker based async requests,                         *)
(*   - the zeroizing allocator behind secure_vector / secure_wstring,      *)
(*   - the synchronous exported handlers.                                  *)
(* Characters are ASCII codes, bytes are 0..255, text is a sequence of     *)
(* characters.  A message (the what() of an exception, the error of a      *)
(* worker) is a sequence of fragments; the empty message is << >>.         *)
(***************************************************************************)
EXTENDS Integers, Sequences, FiniteSets, TLC

VARIABLES
    codecOp,    \* the codec call last made: none / decode / encode / encode_decode / decode_encode
    codecIn,    \* the argument of the first call of the chain
    codecMid,   \* the result of the first call of a two-call chain
    codecOut,   \* the result of the last call
    pc,         \* per async request: none / queued / executing / executed / done / crashed
    worker,     \* per async request: the fields of its AsyncWorker object
    promise,    \* per async request: the promise of its Napi::Promise::Deferred
    native,     \* per async request: what its native call was given and what it reported
    caller,     \* per async request: the arguments of the call and the handler's own copies
    call,       \* the synchronous handler call last made: its result and what it held
    heap,       \* the blocks handed out by zallocator::allocate, by block number
    buf         \* the secure container in use: its element type, block, size and capacity

codecVars == <<codecOp, codecIn, codecMid, codecOut>>

asyncVars == <<pc, worker, promise, native, caller>>

allocVars == <<heap, buf>>

vars == <<codecOp, codecIn, codecMid, codecOut, pc, worker, promise, native, caller, call, heap, buf>>

-----------------------------------------------------------------------------
(* Bounds of the model *)

MaxTextLen == 3

MaxBinLen == 2

\* the characters texts are drawn from: '0' '9' 'A' 'F' 'G' 'a' 'f' 'z'
TextAlphabet == {48, 57, 65, 70, 71, 97, 102, 122}

\* the bytes byte sequences are drawn from (both sides of 0x80)
ByteSamples == {0, 1, 16, 127, 128, 171, 255}

RECURSIVE SeqsUpTo(_, _)
SeqsUpTo(S, n) ==
    IF n = 0 THEN {<< >>}
    ELSE LET shorter == SeqsUpTo(S, n - 1)
         IN  shorter \cup {Append(s, x) : s \in {t \in shorter : Len(t) = n - 1}, x \in S}

\* every text over the alphabet up to the bound, and every single ASCII character
Texts == SeqsUpTo(TextAlphabet, MaxTextLen) \cup {<<c>> : c \in 0..127}

\* every sequence of the sample bytes up to the bound, and every single byte
ByteSeqs == SeqsUpTo(ByteSamples, MaxBinLen) \cup {<<b>> : b \in 0..255}

-----------------------------------------------------------------------------
(* <cctype> as the C locale defines it on ASCII *)

isxdigit(c) == (c >= 48 /\ c <= 57) \/ (c >= 65 /\ c <= 70) \/ (c >= 97 /\ c <= 102)

toupper(c) == IF c >= 97 /\ c <= 122 THEN c - 32 ELSE c

-----------------------------------------------------------------------------
(* string_to_binary, msPassport.cpp:83-101 *)

\* the table with one entry too few between '9' and 'A'
nibbles_ShortGap == <<0, 1, 2, 3, 4, 5, 6, 7, 8, 9, 0, 0, 0, 0, 0, 0, 10, 11, 12, 13, 14, 15, 0>>

\* static unsigned int nibbles[], indexed from 0 by toupper(c) - '0'
nibbles == <<0, 1, 2, 3, 4, 5, 6, 7, 8, 9, 0, 0, 0, 0, 0, 0, 0, 10, 11, 12, 13, 14, 15>>

nibble(c) == nibbles[(toupper(c) - 48) + 1]

\* the message of the exception thrown at a character that is no hex digit
InvalidCharacter(c) == <<"Invalid character: '", c, "' is not a valid hex digit">>

Returned(b) == [threw |-> FALSE, bytes |-> b, what |-> << >>]

Thrown(w) == [threw |-> TRUE, bytes |-> << >>, what |-> w]

\* the shift left out: the digit lands in the low nibble
HighNibble_NoShift(c) == nibble(c) % 256

\* unsigned char v = nibbles[...] << 4
HighNibble(c) == (nibble(c) * 16) % 256

\* if (it + 1 < source.end() && isxdigit(*(it + 1))) v += nibbles[...]
LowNibble(source, i) ==
    IF i + 1 <= Len(source) /\ isxdigit(source[i + 1]) THEN nibble(source[i + 1]) ELSE 0

\* the loop, it = source.begin() + (i - 1), it += 2 while it < source.end()
RECURSIVE stb_loop(_, _, _)
stb_loop(source, i, retval) ==
    IF ~(i <= Len(source)) THEN Returned(retval)
    ELSE IF ~isxdigit(source[i]) THEN Thrown(InvalidCharacter(source[i]))
    ELSE stb_loop(source, i + 2,
                  Append(retval, (HighNibble(source[i]) + LowNibble(source, i)) % 256))

string_to_binary(source) == stb_loop(source, 1, << >>)

-----------------------------------------------------------------------------
(* binary_to_string, msPassport.cpp:103-110 *)

\* the digits in lower case
syms_LowerCase == <<48, 49, 50, 51, 52, 53, 54, 55, 56, 57, 97, 98, 99, 100, 101, 102>>

\* static char syms[] = "0123456789ABCDEF"
syms == <<48, 49, 50, 51, 52, 53, 54, 55, 56, 57, 65, 66, 67, 68, 69, 70>>

\* the loop variable is a char: the byte as a signed 8-bit value
as_char(b) == IF b >= 128 THEN b - 256 ELSE b

\* (unsigned) it: the char sign-extended and converted to unsigned; the low 16
\* bits of the 32 are kept, which hold every bit the shift and the masks read
as_unsigned(c) == c % 65536

\* syms[((unsigned) it >> 4) & 0xf]
HighSym(b) == syms[((as_unsigned(as_char(b)) \div 16) % 16) + 1]

\* syms[(unsigned) it & 0xf]
LowSym(b) == syms[(as_unsigned(as_char(b)) % 16) + 1]

RECURSIVE binary_to_string(_)
binary_to_string(source) ==
    IF source = << >> THEN << >>
    ELSE <<HighSym(Head(source)), LowSym(Head(source))>> \o binary_to_string(Tail(source))

\* no codec call made yet
NoCodec == codecOp = "none" /\ codecIn = << >> /\ codecMid = << >> /\ codecOut = << >>

-----------------------------------------------------------------------------
(* The native passport calls (passport::unmanaged, declared in                *)
(* NodeMsPassport.hpp:182-200, defined outside these sources): what one call  *)
(* reports through its status and outSize references and its returned pointer, *)
(* or the exception it raises.                                                *)

MaxPayload == 1

MaxRequests == 2

Statuses == {0, 1, 3}

\* the bytes a native buffer of a given size holds
PayloadBytes == <<171, 7, 128, 255>>

StdException(w) == [kind |-> "std", what |-> w]

OtherException == [kind |-> "other", what |-> << >>]

NoException == [kind |-> "none", what |-> << >>]

NativeReturns(st, sz, isNull) ==
    [threw |-> FALSE, exc |-> NoException, status |-> st, size |-> sz,
     null |-> isNull, buf |-> IF isNull THEN << >> ELSE SubSeq(PayloadBytes, 1, sz)]

NativeThrows(e) ==
    [threw |-> TRUE, exc |-> e, status |-> 0, size |-> 0, null |-> TRUE, buf |-> << >>]

\* status 0 comes with a buffer of size bytes; status 1 with no buffer, any
\* other failure status with a buffer of one byte
NativeOutcomes ==
    {NativeReturns(0, sz, FALSE) : sz \in 0..MaxPayload}
        \cup {NativeReturns(1, 0, TRUE)}
        \cup {NativeReturns(st, 1, FALSE) : st \in Statuses \ {0, 1}}
        \cup {NativeThrows(StdException(<<"native call failed">>)), NativeThrows(OtherException)}

-----------------------------------------------------------------------------
(* passport::OperationResult and the four wrappers, NodeMsPassport.hpp:212-326 *)

OperationResult(d, s) == [data |-> d, status |-> s]

ok(res) == res.status = 0

NoResult == OperationResult(<< >>, -1)

\* what a wrapper call ends with: an OperationResult or an exception, and how
\* often it handed the native buffer to unmanaged::freeData
WrapperReturns(res) == [threw |-> FALSE, exc |-> NoException, res |-> res, freed |-> 1]

WrapperThrows(e) == [threw |-> TRUE, exc |-> e, res |-> NoResult, freed |-> 0]

\* the statements of a wrapper that run, in order, up to the one that leaves it
WrapperSteps(outcome, allocFails) ==
    IF outcome.threw THEN <<"native call throws">>
    ELSE IF outcome.status = 0 /\ outcome.size > 0 /\ allocFails
         THEN <<"native call", "resize throws">>
    ELSE IF outcome.status = 0
         THEN <<"native call", "resize", "memcpy", "freeData", "return">>
    ELSE <<"native call", "freeData", "return">>

\* the copy made whatever the status is
CopyPayload_AnyStatus(outcome) == SubSeq(outcome.buf, 1, outcome.size)

\* util::secure_byte_vector dt; if (status == 0) { dt.resize(size); memcpy(dt.data(), data, size); }
CopyPayload(outcome) ==
    IF outcome.status = 0 THEN SubSeq(outcome.buf, 1, outcome.size) ELSE << >>

\* the body shared by createPassportKey, passportSign, getPublicKey and
\* getPublicKeyHash; allocFails: dt.resize(size) cannot get its storage
translate(outcome, allocFails) ==
    LET wr == IF outcome.threw THEN WrapperThrows(outcome.exc)
              ELSE IF outcome.status = 0 /\ outcome.size > 0 /\ allocFails
                   THEN WrapperThrows(StdException(<<"bad allocation">>))
              ELSE WrapperReturns(OperationResult(CopyPayload(outcome), outcome.status))
    IN  [threw |-> wr.threw, exc |-> wr.exc, res |-> wr.res, freed |-> wr.freed,
         steps |-> WrapperSteps(outcome, allocFails)]

passport_createPassportKey(outcome, allocFails) == translate(outcome, allocFails)

passport_passportSign(outcome, allocFails) == translate(outcome, allocFails)

passport_getPublicKey(outcome, allocFails) == translate(outcome, allocFails)

passport_getPublicKeyHash(outcome, allocFails) == translate(outcome, allocFails)

-----------------------------------------------------------------------------
(* The values handed to JavaScript *)

\* the object with status, ok and data (a string, or null) built by OnOK
JsResult(status, data) ==
    [status |-> status, ok |-> (status = 0), null |-> (status # 0),
     data |-> IF status = 0 THEN data ELSE << >>]

\* convertToObject, msPassport.cpp:220-231
convertToObject(res) ==
    [status |-> res.status, ok |-> ok(res), null |-> (res.status # 0),
     data |-> IF res.status = 0 THEN binary_to_string(res.data) ELSE << >>]

-----------------------------------------------------------------------------
(* workers::createPassportKeyWorker and workers::passportSignWorker,          *)
(* msPassport.cpp:112-218, on Napi::AsyncWorker                               *)

Requests == 1..MaxRequests

Accounts == {"alice"}

\* the challenge texts a caller passes: "0A", and "G0" which is no hex text
ChallengeTexts == {<<48, 65>>, <<71, 48>>}

NoWorker ==
    [kind |-> "none", account |-> "", challenge |-> << >>,
     status |-> 0, data |-> << >>, error |-> << >>, caught |-> FALSE]

\* createPassportKeyWorker(env, account): account(std::move(account)), status(1)
createPassportKeyWorker(account) ==
    [kind |-> "create", account |-> account, challenge |-> << >>,
     status |-> 1, data |-> << >>, error |-> << >>, caught |-> FALSE]

\* the challenge member left default-constructed
passportSignWorker_NoChallenge(account, challenge) ==
    [kind |-> "sign", account |-> account, challenge |-> << >>,
     status |-> 1, data |-> << >>, error |-> << >>, caught |-> FALSE]

\* passportSignWorker(env, account, challenge): the two strings moved in, status(1)
passportSignWorker(account, challenge) ==
    [kind |-> "sign", account |-> account, challenge |-> challenge,
     status |-> 1, data |-> << >>, error |-> << >>, caught |-> FALSE]

Pending == [state |-> "pending", value |-> << >>, settles |-> 0]

\* Napi::Promise::Deferred::Resolve / Reject: the first call settles the promise
Resolve(p, v) ==
    IF p.state = "pending" THEN [state |-> "resolved", value |-> v, settles |-> p.settles + 1]
    ELSE [p EXCEPT !.settles = @ + 1]

Reject(p, v) ==
    IF p.state = "pending" THEN [state |-> "rejected", value |-> v, settles |-> p.settles + 1]
    ELSE [p EXCEPT !.settles = @ + 1]

\* the native call of a request: whether it was made, its arguments, what it
\* reported, and the exception raised inside the try block of Execute, if any
NoNative ==
    [called |-> FALSE, account |-> "", challenge |-> << >>,
     outcome |-> NativeThrows(NoException), raised |-> NoException]

NoArguments == [account |-> "", challenge |-> << >>, locals |-> "none"]

\* info[0] and info[1] of an async call once the handler has returned: the
\* JavaScript strings, and the handler's std::string copies of them, destroyed
\* at the return
Arguments(account, challenge) ==
    [account |-> account, challenge |-> challenge, locals |-> "destroyed"]

\* only std::exception caught: any other thrown value leaves Execute
ExecuteCatch_StdOnly(w, e) ==
    IF e.kind = "std" THEN [w EXCEPT !.error = e.what, !.caught = TRUE] ELSE w

\* catch (const std::exception &e) { SetError(e.what()); }
\* catch (...) { SetError("An unknown exception occurred"); }
ExecuteCatch(w, e) ==
    IF e.kind = "std" THEN [w EXCEPT !.error = e.what, !.caught = TRUE]
    ELSE [w EXCEPT !.error = <<"An unknown exception occurred">>, !.caught = TRUE]

\* an exception left Execute
Escaped(w, e) == ~ExecuteCatch(w, e).caught

\* the status member left as the constructor set it
ExecuteStore_KeepStatus(w, res) ==
    [w EXCEPT !.data = IF ok(res) THEN binary_to_string(res.data) ELSE @]

\* if (res.ok()) data = binary_to_string(res.data); status = res.status;
ExecuteStore(w, res) ==
    [w EXCEPT !.data = IF ok(res) THEN binary_to_string(res.data) ELSE @,
              !.status = res.status]

\* the rest of the try block once the wrapper call has ended
ExecuteFinish(w, wr) ==
    IF wr.threw THEN ExecuteCatch(w, wr.exc) ELSE ExecuteStore(w, wr.res)

\* OnOK: the object built from status and data, resolved
OnOK(w, p) == Resolve(p, JsResult(w.status, w.data))

\* OnError left as a no-op
OnError_NoReject(w, p) == p

\* OnError: deferred.Reject(error.Value())
OnError(w, p) == Reject(p, w.error)

\* Napi::AsyncWorker::OnWorkComplete: OnOK when no error was set, else OnError
OnWorkComplete(w, p) == IF w.error = << >> THEN OnOK(w, p) ELSE OnError(w, p)

\* status, data and error kept in one place shared by every worker
Completion_SharedResult(ws, ps, r) == OnWorkComplete(ws[1], ps[r])

\* the completion callback of request r: status, data and deferred are members
\* of the worker, so it reads its own worker and settles its own promise
Completion(ws, ps, r) == OnWorkComplete(ws[r], ps[r])

\* the state a worker is left in by its completion callback re-queueing it
AfterCompletion_Requeue == "queued"

\* after OnOK / OnError the worker is destroyed; nothing queues it again
AfterCompletion == "done"

NoAsync ==
    /\ pc = [r \in Requests |-> "none"]
    /\ worker = [r \in Requests |-> NoWorker]
    /\ promise = [r \in Requests |-> Pending]
    /\ native = [r \in Requests |-> NoNative]
    /\ caller = [r \in Requests |-> NoArguments]

\* createPassportKeyAsync, msPassport.cpp:250-262
createPassportKeyAsync(r, account) ==
    /\ pc[r] = "none"
    /\ worker' = [worker EXCEPT ![r] = createPassportKeyWorker(account)]
    /\ promise' = [promise EXCEPT ![r] = Pending]
    /\ pc' = [pc EXCEPT ![r] = "queued"]
    /\ caller' = [caller EXCEPT ![r] = Arguments(account, << >>)]
    /\ UNCHANGED native

\* passportSignAsync, msPassport.cpp:277-291
passportSignAsync(r, account, challenge) ==
    /\ pc[r] = "none"
    /\ worker' = [worker EXCEPT ![r] = passportSignWorker(account, challenge)]
    /\ promise' = [promise EXCEPT ![r] = Pending]
    /\ pc' = [pc EXCEPT ![r] = "queued"]
    /\ caller' = [caller EXCEPT ![r] = Arguments(account, challenge)]
    /\ UNCHANGED native

\* a pool thread starts Execute and runs it up to the native call; for a sign
\* request the challenge is decoded first, and a decode error ends Execute
ExecuteBegin(r) ==
    /\ pc[r] = "queued"
    /\ LET w == worker[r]
           challenge_vec == string_to_binary(w.challenge)
       IN  IF w.kind = "sign" /\ challenge_vec.threw
           THEN LET e == StdException(challenge_vec.what)
                IN  /\ worker' = [worker EXCEPT ![r] = ExecuteCatch(w, e)]
                    /\ pc' = [pc EXCEPT ![r] = IF Escaped(w, e) THEN "crashed" ELSE "executed"]
                    /\ native' = [native EXCEPT ![r].raised = e]
           ELSE /\ pc' = [pc EXCEPT ![r] = "executing"]
                /\ native' = [native EXCEPT ![r] =
                       [called |-> TRUE, account |-> w.account,
                        challenge |-> IF w.kind = "sign" THEN challenge_vec.bytes ELSE << >>,
                        outcome |-> NativeThrows(NoException), raised |-> NoException]]
                /\ UNCHANGED worker
    /\ UNCHANGED <<promise, caller>>

\* the native call ends and Execute runs to its end
ExecuteEnd(r, outcome, allocFails) ==
    /\ pc[r] = "executing"
    /\ LET w == worker[r]
           wr == IF w.kind = "sign" THEN passport_passportSign(outcome, allocFails)
                 ELSE passport_createPassportKey(outcome, allocFails)
       IN  /\ worker' = [worker EXCEPT ![r] = ExecuteFinish(w, wr)]
           /\ pc' = [pc EXCEPT ![r] =
                  IF wr.threw /\ Escaped(w, wr.exc) THEN "crashed" ELSE "executed"]
           /\ native' = [native EXCEPT ![r].outcome = outcome, ![r].raised = wr.exc]
    /\ UNCHANGED <<promise, caller>>

\* the main thread runs the completion callback of a worker whose Execute ended
Complete(r) ==
    /\ pc[r] = "executed"
    /\ promise' = [promise EXCEPT ![r] = Completion(worker, promise, r)]
    /\ pc' = [pc EXCEPT ![r] = AfterCompletion]
    /\ UNCHANGED <<worker, native, caller>>

-----------------------------------------------------------------------------
(* util::zallocator and the containers on it (basic_secure_vector,            *)
(* basic_secure_wstring), NodeMsPassport.hpp:24-121.  A block is the storage  *)
(* of one allocate call; a freed block keeps the bytes it held at the moment  *)
(* ::operator delete was called on it.                                        *)

MaxBlocks == 3

MaxElems == 2

ElemTypes == {"unsigned char", "wchar_t"}

sizeof(T) == IF T = "wchar_t" THEN 2 ELSE 1

\* the element values written to a container
ElemValues(T) == IF T = "wchar_t" THEN {112, 8364} ELSE {0, 171}

\* the object representation of a sequence of elements, low byte first
RECURSIVE ElemBytes(_, _)
ElemBytes(T, elems) ==
    IF elems = << >> THEN << >>
    ELSE (IF T = "wchar_t" THEN <<Head(elems) % 256, Head(elems) \div 256>>
          ELSE <<Head(elems)>>) \o ElemBytes(T, Tail(elems))

Blocks == 1..MaxBlocks

Unused == [state |-> "unused", T |-> "unsigned char", n |-> 0, bytes |-> << >>, held |-> FALSE]

NoBuf == [T |-> "unsigned char", block |-> 0, size |-> 0, cap |-> 0]

NoAlloc == heap = [b \in Blocks |-> Unused] /\ buf = NoBuf

\* zallocator::allocate(n): ::operator new(n * sizeof(value_type))
allocate(T, n) ==
    [state |-> "live", T |-> T, n |-> n, bytes |-> [i \in 1..(n * sizeof(T)) |-> 0],
     held |-> FALSE]

\* n bytes filled where n * sizeof(T) are due
deallocate_CountAsBytes(blk, n) ==
    [blk EXCEPT !.bytes = [i \in DOMAIN @ |-> IF i <= n THEN 0 ELSE @[i]],
                !.state = "freed"]

\* zallocator::deallocate(p, n): std::fill_n((volatile char *) p, n * sizeof(T), 0),
\* then ::operator delete(p)
deallocate(blk, n) ==
    [blk EXCEPT !.bytes = [i \in DOMAIN @ |-> IF i <= n * sizeof(blk.T) THEN 0 ELSE @[i]],
                !.state = "freed"]

\* the elements written to the front of a block
Store(blk, elems) ==
    LET bs == ElemBytes(blk.T, elems)
    IN  [blk EXCEPT !.bytes = [i \in DOMAIN @ |-> IF i <= Len(bs) THEN bs[i] ELSE @[i]],
                    !.held = @ \/ (\E i \in DOMAIN bs : bs[i] # 0)]

\* the elements a block holds in its first k places, read back
Load(blk, k) ==
    [i \in 1..k |->
        IF blk.T = "wchar_t" THEN blk.bytes[2 * i - 1] + 256 * blk.bytes[2 * i]
        ELSE blk.bytes[i]]

\* the storage a container of the given size asks for: a basic_string keeps a
\* terminating null after its characters
Capacity(T, size) == IF T = "wchar_t" THEN size + 1 ELSE size

FreeBlock == CHOOSE b \in Blocks : heap[b].state = "unused" /\ \A c \in Blocks : c < b => heap[c].state # "unused"

\* a container constructed from a range of elements: secure_vector<T>(first, last),
\* secure_wstring(first, last)
Construct(T, elems) ==
    /\ buf.block = 0
    /\ \E b \in Blocks : heap[b].state = "unused"
    /\ LET cap == Capacity(T, Len(elems))
       IN  /\ heap' = [heap EXCEPT ![FreeBlock] = Store(allocate(T, cap), elems)]
           /\ buf' = [T |-> T, block |-> FreeBlock, size |-> Len(elems), cap |-> cap]

\* push_back / append of one element: in place while the capacity lasts, else
\* into a new block, the old one handed to deallocate with its capacity
PushBack(x) ==
    /\ buf.block # 0
    /\ buf.size < MaxElems
    /\ LET old == heap[buf.block]
           elems == Append(Load(old, buf.size), x)
           cap == Capacity(buf.T, buf.size + 1)
       IN  IF cap <= buf.cap
           THEN /\ heap' = [heap EXCEPT ![buf.block] = Store(old, elems)]
                /\ buf' = [buf EXCEPT !.size = @ + 1]
           ELSE /\ \E b \in Blocks : heap[b].state = "unused"
                /\ heap' = [heap EXCEPT ![FreeBlock] = Store(allocate(buf.T, cap), elems),
                                        ![buf.block] = deallocate(old, buf.cap)]
                /\ buf' = [buf EXCEPT !.block = FreeBlock, !.size = @ + 1, !.cap = cap]

\* resize(0) / clear: the size drops, the storage and what it holds stay
Clear ==
    /\ buf.block # 0
    /\ buf.size > 0
    /\ buf' = [buf EXCEPT !.size = 0]
    /\ UNCHANGED heap

\* the destructor: the block handed to deallocate with its capacity
Destroy ==
    /\ buf.block # 0
    /\ heap' = [heap EXCEPT ![buf.block] = deallocate(heap[buf.block], buf.cap)]
    /\ buf' = NoBuf

-----------------------------------------------------------------------------
(* secure_wstring and the bytes behind it, NodeMsPassport.hpp:114-160.        *)
(* Wide text is a sequence of wchar_t values, 16 bits each, low byte first.   *)

MaxWideLen == 2

\* the wide characters passwords are drawn from: 'p' and the euro sign
WideAlphabet == {112, 8364}

WideTexts == SeqsUpTo(WideAlphabet, MaxWideLen)

\* secure_wstring(const secure_vector<unsigned char> &): size() / sizeof(wchar_t)
\* characters copied with memcpy_s, which refuses a source longer than the
\* destination (an odd number of bytes) and leaves the string resized to 0
secure_wstring_from_bytes(data) ==
    IF Len(data) % 2 = 1 THEN << >>
    ELSE [i \in 1..(Len(data) \div 2) |-> data[2 * i - 1] + 256 * data[2 * i]]

RECURSIVE getBytes(_)
\* secure_wstring::getBytes: size() * sizeof(wchar_t) bytes
getBytes(ws) ==
    IF ws = << >> THEN << >>
    ELSE <<Head(ws) % 256, Head(ws) \div 256>> \o getBytes(Tail(ws))

-----------------------------------------------------------------------------
(* The platform calls behind the vault and the protector (credentials::write, *)
(* credentials::util::read, passwords::util::encrypt / decrypt, declared in   *)
(* NodeMsPassport.hpp:358-439, defined outside these sources)                 *)

\* credentials::util::read: nullptr, or a credential with its user name and password
VaultReadOutcomes ==
    {[found |-> FALSE, username |-> << >>, pass |-> << >>]}
        \cup {[found |-> TRUE, username |-> <<117>>, pass |-> pw] : pw \in WideTexts}

\* passwords::util::encrypt / decrypt: false, or true with the string written to out
ProtectorOutcomes ==
    {[ok |-> FALSE, out |-> << >>]} \cup {[ok |-> TRUE, out |-> t] : t \in WideTexts \ {<< >>}}

\* passwords::util::isEncrypted: the answer it returns and the ok flag it sets
QueryOutcomes == {[ok |-> k, res |-> b] : k \in BOOLEAN, b \in BOOLEAN}

\* credentials::isEncrypted (noexcept(false)): its answer, or the exception it raises
VaultQueryOutcomes ==
    {[threw |-> FALSE, exc |-> NoException, res |-> b] : b \in BOOLEAN}
        \cup {[threw |-> TRUE, exc |-> StdException(<<"Could not check if the entry is encrypted">>),
               res |-> FALSE]}

\* the nullptr test left out: an entry is built whatever util::read returned
credentials_read_AlwaysFound(outcome, user, password) ==
    [ret |-> TRUE, user |-> outcome.username, password |-> outcome.pass,
     steps |-> <<"util::read", "copy password", "deleteWstring", "copy username",
                 "freePcred", "return">>]

\* credentials::read, NodeMsPassport.hpp:390-407
credentials_read(outcome, user, password) ==
    IF ~outcome.found
    THEN [ret |-> FALSE, user |-> user, password |-> password,
          steps |-> <<"util::read", "return">>]
    ELSE [ret |-> TRUE, user |-> outcome.username, password |-> outcome.pass,
          steps |-> <<"util::read", "copy password", "deleteWstring", "copy username",
                      "freePcred", "return">>]

\* data assigned from out before the result of util::encrypt is looked at
passwords_encrypt_AssignFirst(data, outcome) == [ret |-> outcome.ok, data |-> outcome.out]

\* passwords::encrypt, NodeMsPassport.hpp:447-455
passwords_encrypt(data, outcome) ==
    IF ~outcome.ok THEN [ret |-> FALSE, data |-> data]
    ELSE [ret |-> TRUE, data |-> outcome.out]

\* passwords::decrypt, NodeMsPassport.hpp:463-471
passwords_decrypt(data, outcome) ==
    IF ~outcome.ok THEN [ret |-> FALSE, data |-> data]
    ELSE [ret |-> TRUE, data |-> outcome.out]

\* the indeterminate state answered with false
passwords_isEncrypted_FalseWhenUnknown(outcome) ==
    [threw |-> FALSE, exc |-> NoException, res |-> outcome.ok /\ outcome.res]

\* passwords::isEncrypted, NodeMsPassport.hpp:479-487
passwords_isEncrypted(outcome) ==
    IF ~outcome.ok
    THEN [threw |-> TRUE, exc |-> StdException(<<"Could not check if data is encrypted">>),
          res |-> FALSE]
    ELSE [threw |-> FALSE, exc |-> NoException, res |-> outcome.res]

-----------------------------------------------------------------------------
(* The synchronous handlers, msPassport.cpp:239-428.  A call records what it  *)
(* returned or threw, the OperationResult it got, and every container that    *)
(* held secret material while it ran.                                         *)

Holds(var, type, value) == [var |-> var, type |-> type, value |-> value]

\* the containers of binary_to_string while it encodes a secret
EncoderHolds(bytes) ==
    {Holds("binary_to_string::ss", "std::stringstream", binary_to_string(bytes)),
     Holds("binary_to_string()", "std::string", binary_to_string(bytes))}

\* the containers whose storage is zeroed when it is freed
Zeroizing(type) == type \in {"secure_wstring", "secure_byte_vector"}

JsValue(v) == [threw |-> FALSE, error |-> << >>, value |-> v]

\* CATCH_EXCEPTIONS, msPassport.cpp:12
JsThrow(e) ==
    [threw |-> TRUE,
     error |-> IF e.kind = "std" THEN e.what ELSE <<"An unknown exception occurred">>,
     value |-> << >>]

\* env.Null(), as a value that compares with the objects a handler returns
JsNull == [null |-> TRUE]

\* no call of passwords::encrypt / decrypt made by the handler
NoProtect == [made |-> FALSE, before |-> << >>, ret |-> FALSE, after |-> << >>]

\* the secure_wstring handed to passwords::encrypt / decrypt before the call, what
\* the call returned, and the secure_wstring after it
Protect(before, pr) == [made |-> TRUE, before |-> before, ret |-> pr.ret, after |-> pr.data]

NoCall ==
    call = [fn |-> "none", in |-> [args |-> << >>, outcome |-> << >>], made |-> FALSE,
            res |-> NoResult, ret |-> JsValue(<< >>), freed |-> 0, held |-> {},
            steps |-> << >>, prot |-> NoProtect]

\* in: the arguments and what the platform call reported; steps: the statements
\* of the library call that ran; prot: the call of the protector, if one was made
Called(fn, in, made, res, ret, freed, held) ==
    [fn |-> fn, in |-> in, made |-> made, res |-> res, ret |-> ret, freed |-> freed,
     held |-> held, steps |-> << >>, prot |-> NoProtect]

NoInput == [args |-> << >>, outcome |-> << >>]

Input(args, outcome) == [args |-> args, outcome |-> outcome]

\* the tail shared by createPassportKey, passportSign, getPublicKey and
\* getPublicKeyHash: the wrapper's result converted, or its exception rethrown
BiometricCall(fn, in, wr, heldBefore) ==
    LET c == IF wr.threw
             THEN Called(fn, in, FALSE, NoResult, JsThrow(wr.exc), wr.freed, heldBefore)
             ELSE Called(fn, in, TRUE, wr.res, JsValue(convertToObject(wr.res)), wr.freed,
                         heldBefore
                             \cup (IF wr.res.status = 0
                                   THEN {Holds("res.data", "secure_byte_vector", wr.res.data)}
                                            \cup EncoderHolds(wr.res.data)
                                   ELSE {}))
    IN  [c EXCEPT !.steps = wr.steps]

\* createPassportKey, msPassport.cpp:239-248
createPassportKey(account, outcome, allocFails) ==
    /\ call.fn = "none"
    /\ call' = BiometricCall("createPassportKey", Input(<<account>>, outcome),
                             passport_createPassportKey(outcome, allocFails), {})

\* passportSign, msPassport.cpp:264-275
passportSign(account, text, outcome, allocFails) ==
    /\ call.fn = "none"
    /\ LET challenge == string_to_binary(text)
           utf8 == {Holds("info[1].Utf8Value()", "std::string", text)}
       IN  call' =
               IF challenge.threw
               THEN Called("passportSign", Input(<<account, text>>, << >>), FALSE, NoResult,
                           JsThrow(StdException(challenge.what)), 0, utf8)
               ELSE BiometricCall("passportSign", Input(<<account, text>>, outcome),
                                  passport_passportSign(outcome, allocFails),
                                  utf8 \cup {Holds("challenge", "secure_byte_vector",
                                                   challenge.bytes)})

\* getPublicKey, msPassport.cpp:303-313
getPublicKey(account, outcome, allocFails) ==
    /\ call.fn = "none"
    /\ call' = BiometricCall("getPublicKey", Input(<<account>>, outcome),
                             passport_getPublicKey(outcome, allocFails), {})

\* getPublicKeyHash, msPassport.cpp:315-325
getPublicKeyHash(account, outcome, allocFails) ==
    /\ call.fn = "none"
    /\ call' = BiometricCall("getPublicKeyHash", Input(<<account>>, outcome),
                             passport_getPublicKeyHash(outcome, allocFails), {})

\* writeCredential, msPassport.cpp:339-353
writeCredential(password, written) ==
    /\ call.fn = "none"
    /\ call' = Called("writeCredential", Input(<<password>>, written), FALSE, NoResult, JsValue(written), 0,
                      {Holds("password_u16", "std::u16string", password),
                       Holds("password", "secure_wstring", password)})

\* readCredential, msPassport.cpp:355-375
readCredential(outcome) ==
    /\ call.fn = "none"
    /\ LET rd == credentials_read(outcome, << >>, << >>)
           c == IF rd.ret
                THEN Called("readCredential", Input(<< >>, outcome), FALSE, NoResult,
                            JsValue([username |-> rd.user, password |-> rd.password]), 2,
                            {Holds("password", "secure_wstring", rd.password),
                             Holds("std::u16string(password.begin(), password.end())",
                                   "std::u16string", rd.password)})
                ELSE Called("readCredential", Input(<< >>, outcome), FALSE, NoResult,
                            JsValue(JsNull), 0, {})
       IN  call' = [c EXCEPT !.steps = rd.steps]

\* encryptPassword, msPassport.cpp:400-413
encryptPassword(password, outcome) ==
    /\ call.fn = "none"
    /\ LET enc == passwords_encrypt(password, outcome)
           before == {Holds("data_u16", "std::u16string", password),
                      Holds("data", "secure_wstring", password)}
           c == IF ~enc.ret
                THEN Called("encryptPassword", Input(<<password>>, outcome), FALSE, NoResult,
                            JsThrow(StdException(<<"Could not encrypt the data">>)), 0, before)
                ELSE Called("encryptPassword", Input(<<password>>, outcome), FALSE, NoResult,
                            JsValue(binary_to_string(getBytes(enc.data))), 0, before)
       IN  call' = [c EXCEPT !.prot = Protect(password, enc)]

\* decryptPassword, msPassport.cpp:415-428
decryptPassword(text, outcome) ==
    /\ call.fn = "none"
    /\ LET bytes == string_to_binary(text)
           data == secure_wstring_from_bytes(bytes.bytes)
           dec == passwords_decrypt(data, outcome)
       IN  call' =
               IF bytes.threw
               THEN Called("decryptPassword", Input(<<text>>, outcome), FALSE, NoResult,
                           JsThrow(StdException(bytes.what)), 0, {})
               ELSE IF ~dec.ret
               THEN [Called("decryptPassword", Input(<<text>>, outcome), FALSE, NoResult,
                            JsThrow(StdException(<<"Could not decrypt the data">>)), 0, {})
                        EXCEPT !.prot = Protect(data, dec)]
               ELSE [Called("decryptPassword", Input(<<text>>, outcome), FALSE, NoResult,
                            JsValue(dec.data), 0,
                            {Holds("data", "secure_wstring", dec.data),
                             Holds("std::u16string(data.begin(), data.end())",
                                   "std::u16string", dec.data)})
                        EXCEPT !.prot = Protect(data, dec)]

\* passwordEncrypted, msPassport.cpp:430-444
passwordEncrypted(text, outcome) ==
    /\ call.fn = "none"
    /\ LET data_vec == string_to_binary(text)
           res == passwords_isEncrypted(outcome)
       IN  call' =
               IF data_vec.threw
               THEN Called("passwordEncrypted", Input(<<text>>, outcome), FALSE, NoResult,
                           JsThrow(StdException(data_vec.what)), 0, {})
               ELSE IF res.threw
               THEN Called("passwordEncrypted", Input(<<text>>, outcome), FALSE, NoResult,
                           JsThrow(res.exc), 0, {})
               ELSE Called("passwordEncrypted", Input(<<text>>, outcome), FALSE, NoResult,
                           JsValue(res.res), 0, {})

\* removeCredential, msPassport.cpp:377-385
removeCredential(removed) ==
    /\ call.fn = "none"
    /\ call' = Called("removeCredential", Input(<< >>, removed), FALSE, NoResult,
                      JsValue(removed), 0, {})

\* credentialEncrypted, msPassport.cpp:387-398
credentialEncrypted(outcome) ==
    /\ call.fn = "none"
    /\ call' = Called("credentialEncrypted", Input(<< >>, outcome), FALSE, NoResult,
                      IF outcome.threw THEN JsThrow(outcome.exc) ELSE JsValue(outcome.res),
                      0, {})

\* the handler has returned to JavaScript
Return ==
    /\ call.fn # "none"
    /\ call' = [fn |-> "none", in |-> NoInput, made |-> FALSE, res |-> NoResult,
                ret |-> JsValue(<< >>), freed |-> 0, held |-> {},
                steps |-> << >>, prot |-> NoProtect]

\* the encrypted texts a caller passes to decryptPassword: "7000", "70", "G0", ""
ProtectedTexts == {<<55, 48, 48, 48>>, <<55, 48>>, <<71, 48>>, << >>}

CallsInit == NoCodec /\ NoAsync /\ NoCall /\ NoAlloc

CallsNext ==
    \/ \E pw \in WideTexts, w \in BOOLEAN :
           writeCredential(pw, w) /\ UNCHANGED <<codecVars, asyncVars, allocVars>>
    \/ \E a \in Accounts, o \in NativeOutcomes, f \in BOOLEAN :
           createPassportKey(a, o, f) /\ UNCHANGED <<codecVars, asyncVars, allocVars>>
    \/ \E a \in Accounts, t \in ChallengeTexts, o \in NativeOutcomes, f \in BOOLEAN :
           passportSign(a, t, o, f) /\ UNCHANGED <<codecVars, asyncVars, allocVars>>
    \/ \E a \in Accounts, o \in NativeOutcomes, f \in BOOLEAN :
           getPublicKey(a, o, f) /\ UNCHANGED <<codecVars, asyncVars, allocVars>>
    \/ \E a \in Accounts, o \in NativeOutcomes, f \in BOOLEAN :
           getPublicKeyHash(a, o, f) /\ UNCHANGED <<codecVars, asyncVars, allocVars>>
    \/ \E o \in VaultReadOutcomes : readCredential(o) /\ UNCHANGED <<codecVars, asyncVars, allocVars>>
    \/ \E pw \in WideTexts, o \in ProtectorOutcomes :
           encryptPassword(pw, o) /\ UNCHANGED <<codecVars, asyncVars, allocVars>>
    \/ \E t \in ProtectedTexts, o \in ProtectorOutcomes :
           decryptPassword(t, o) /\ UNCHANGED <<codecVars, asyncVars, allocVars>>
    \/ \E t \in ProtectedTexts, o \in QueryOutcomes :
           passwordEncrypted(t, o) /\ UNCHANGED <<codecVars, asyncVars, allocVars>>
    \/ \E removed \in BOOLEAN :
           removeCredential(removed) /\ UNCHANGED <<codecVars, asyncVars, allocVars>>
    \/ \E o \in VaultQueryOutcomes :
           credentialEncrypted(o) /\ UNCHANGED <<codecVars, asyncVars, allocVars>>
    \/ Return /\ UNCHANGED <<codecVars, asyncVars, allocVars>>

SpecCalls == CallsInit /\ [][CallsNext]_vars

-----------------------------------------------------------------------------
(* The secure containers on their own: constructed, grown, cleared, destroyed *)

AllocInit == NoCodec /\ NoAsync /\ NoCall /\ NoAlloc

AllocNext ==
    \/ \E T \in ElemTypes :
         \E elems \in SeqsUpTo(ElemValues(T), MaxElems) \ {<< >>} :
           Construct(T, elems) /\ UNCHANGED <<codecVars, asyncVars, call>>
    \/ \E x \in ElemValues(buf.T) : PushBack(x) /\ UNCHANGED <<codecVars, asyncVars, call>>
    \/ Clear /\ UNCHANGED <<codecVars, asyncVars, call>>
    \/ Destroy /\ UNCHANGED <<codecVars, asyncVars, call>>

SpecAlloc == AllocInit /\ [][AllocNext]_vars

-----------------------------------------------------------------------------
(* The async requests: callers issue requests, a pool runs their Execute, the *)
(* main thread completes them.                                                *)

Init == NoCodec /\ NoAsync /\ NoCall /\ NoAlloc

Next ==
    \/ \E r \in Requests, a \in Accounts :
           createPassportKeyAsync(r, a) /\ UNCHANGED <<codecVars, call, allocVars>>
    \/ \E r \in Requests, a \in Accounts, c \in ChallengeTexts :
           passportSignAsync(r, a, c) /\ UNCHANGED <<codecVars, call, allocVars>>
    \/ \E r \in Requests : ExecuteBegin(r) /\ UNCHANGED <<codecVars, call, allocVars>>
    \/ \E r \in Requests, o \in NativeOutcomes, f \in BOOLEAN :
           ExecuteEnd(r, o, f) /\ UNCHANGED <<codecVars, call, allocVars>>
    \/ \E r \in Requests : Complete(r) /\ UNCHANGED <<codecVars, call, allocVars>>

Spec == Init /\ [][Next]_vars

\* the steps of one request that need no caller: Execute on a pool thread, the
\* native call's return, the completion callback on the main thread
Proceed(r) ==
    \/ ExecuteBegin(r) /\ UNCHANGED <<codecVars, call, allocVars>>
    \/ (\E o \in NativeOutcomes, f \in BOOLEAN : ExecuteEnd(r, o, f))
           /\ UNCHANGED <<codecVars, call, allocVars>>
    \/ Complete(r) /\ UNCHANGED <<codecVars, call, allocVars>>

\* the pool runs every queued worker, the native call returns, and the event
\* loop delivers every completion
Fairness == \A r \in Requests : WF_vars(Proceed(r))

FairSpec == Spec /\ Fairness

-----------------------------------------------------------------------------
(* The codec on its own: every call of string_to_binary and binary_to_string  *)
(* on the bounded inputs, and the two chains of one after the other.          *)

CallStringToBinary(t) ==
    /\ codecOp = "none"
    /\ codecOp' = "decode"
    /\ codecIn' = t
    /\ codecMid' = << >>
    /\ codecOut' = string_to_binary(t)

CallBinaryToString(b) ==
    /\ codecOp = "none"
    /\ codecOp' = "encode"
    /\ codecIn' = b
    /\ codecMid' = << >>
    /\ codecOut' = binary_to_string(b)

\* string_to_binary(binary_to_string(b))
DecodeEncoded ==
    /\ codecOp = "encode"
    /\ codecOp' = "encode_decode"
    /\ codecMid' = codecOut
    /\ codecOut' = string_to_binary(codecOut)
    /\ UNCHANGED codecIn

\* binary_to_string(string_to_binary(t)), when string_to_binary returned
EncodeDecoded ==
    /\ codecOp = "decode"
    /\ ~codecOut.threw
    /\ codecOp' = "decode_encode"
    /\ codecMid' = codecOut
    /\ codecOut' = binary_to_string(codecOut.bytes)
    /\ UNCHANGED codecIn

CodecInit == NoCodec /\ NoAsync /\ NoCall /\ NoAlloc

CodecNext ==
    \/ (\E t \in Texts : CallStringToBinary(t)) /\ UNCHANGED <<asyncVars, call, allocVars>>
    \/ (\E b \in ByteSeqs : CallBinaryToString(b)) /\ UNCHANGED <<asyncVars, call, allocVars>>
    \/ DecodeEncoded /\ UNCHANGED <<asyncVars, call, allocVars>>
    \/ EncodeDecoded /\ UNCHANGED <<asyncVars, call, allocVars>>

SpecCodec == CodecInit /\ [][CodecNext]_vars

-----------------------------------------------------------------------------
(* Properties of the codec *)

\* the value of a hex digit, either case
HexDigitValue(c) ==
    IF c >= 48 /\ c <= 57 THEN c - 48
    ELSE IF c >= 65 /\ c <= 70 THEN c - 55
    ELSE c - 87

IsHexDigit(c) == c \in (48..57) \cup (65..70) \cup (97..102)

UpperCase(c) == IF c \in 97..122 THEN c - 32 ELSE c

AllHex(t) == \A i \in DOMAIN t : IsHexDigit(t[i])

\* C1: for every byte sequence b, the empty one and bytes >= 0x80 included,
\* string_to_binary(binary_to_string(b)) returns exactly b.
C1_DecodeEncodeIsIdentity ==
    codecOp = "encode_decode" =>
        /\ Len(codecMid) = 2 * Len(codecIn)
        /\ codecOut = Returned(codecIn)

C1_Witness ==
    /\ codecOp = "encode_decode"
    /\ Len(codecIn) >= 2
    /\ codecIn[1] >= 128
    /\ codecOut.bytes = codecIn

\* C2: for every text with a character that is no hex digit, at a high-nibble or
\* at a low-nibble position, string_to_binary fails with an error naming that
\* character and returns no bytes.
C2_NonHexAlwaysRejected ==
    (codecOp = "decode" /\ ~AllHex(codecIn)) =>
        /\ codecOut.threw
        /\ \E i \in DOMAIN codecIn :
              ~IsHexDigit(codecIn[i]) /\ codecOut.what = InvalidCharacter(codecIn[i])

\* C3: for every hex text of odd length 2k+1, string_to_binary returns k+1 bytes;
\* the last has the final character as its high nibble and zero as its low
\* nibble, the first k are the decoding of the first 2k characters.
C3_OddLengthTrailingHighNibble ==
    (codecOp = "decode" /\ AllHex(codecIn) /\ Len(codecIn) % 2 = 1) =>
        LET k == Len(codecIn) \div 2
        IN  /\ ~codecOut.threw
            /\ Len(codecOut.bytes) = k + 1
            /\ codecOut.bytes[k + 1] = 16 * HexDigitValue(codecIn[2 * k + 1])
            /\ \A j \in 1..k :
                  codecOut.bytes[j] =
                      16 * HexDigitValue(codecIn[2 * j - 1]) + HexDigitValue(codecIn[2 * j])

C3_Witness ==
    /\ codecOp = "decode"
    /\ AllHex(codecIn)
    /\ Len(codecIn) = 3
    /\ codecIn[3] = 102
    /\ codecOut.bytes = <<HexDigitValue(codecIn[1]) * 16 + HexDigitValue(codecIn[2]), 240>>

\* C4: for every even-length text t of hex digits in either case,
\* binary_to_string(string_to_binary(t)) is t with every letter in upper case.
C4_EncodeDecodeIsUpperCase ==
    (codecOp = "decode_encode" /\ AllHex(codecIn) /\ Len(codecIn) % 2 = 0) =>
        codecOut = [i \in 1..Len(codecIn) |-> UpperCase(codecIn[i])]

C4_Witness ==
    /\ codecOp = "decode_encode"
    /\ codecIn = <<97, 70>>
    /\ codecOut = <<65, 70>>

-----------------------------------------------------------------------------
(* Properties of the async requests *)

Settled(r) == promise[r].state \in {"resolved", "rejected"}

\* C6: the promise of every request issued by createPassportKeyAsync or
\* passportSignAsync is settled exactly once: Resolve or Reject is called at most
\* once, a completed request has had exactly one such call, and (the pool
\* running the worker and the native call returning) every queued request is
\* eventually resolved or rejected.
C6_SettledExactlyOnce ==
    /\ [](\A r \in Requests :
            /\ promise[r].settles <= 1
            /\ (promise[r].settles = 1 <=> Settled(r))
            /\ (pc[r] = "done" => Settled(r)))
    /\ \A r \in Requests : (pc[r] = "queued") ~> (Settled(r) /\ promise[r].settles = 1)

C6_Witness ==
    /\ pc[1] = "done" /\ promise[1].state = "resolved" /\ promise[1].settles = 1
    /\ pc[2] = "done" /\ promise[2].state = "rejected" /\ promise[2].settles = 1

\* the state of a request in the terms of the design
PhaseOf(p, pr) ==
    CASE p = "none" -> "None"
      [] p = "queued" -> "Queued"
      [] p \in {"executing", "executed"} -> "Running"
      [] p = "done" -> IF pr.state = "resolved" THEN "CompletedSuccess" ELSE "CompletedFailure"
      [] OTHER -> "Aborted"

LifecycleSteps ==
    {<<"None", "Queued">>, <<"Queued", "Running">>,
     <<"Running", "CompletedSuccess">>, <<"Running", "CompletedFailure">>}

\* C7: a request moves only Queued -> Running -> Completed(success) or
\* Completed(failure): it never skips Running, never leaves a Completed state, and
\* a Running request goes nowhere but to a Completed state.
C7_Lifecycle ==
    [][\A r \in Requests :
          LET before == PhaseOf(pc[r], promise[r])
              after == PhaseOf(pc'[r], promise'[r])
          IN  before = after \/ <<before, after>> \in LifecycleSteps]_vars

C7_Witness ==
    /\ PhaseOf(pc[1], promise[1]) = "CompletedFailure" /\ native[1].called
    /\ PhaseOf(pc[2], promise[2]) = "Running"

-----------------------------------------------------------------------------
(* Properties of the wrappers, the handlers and the allocator *)

\* C5 as stated: for every OperationResult of createPassportKey, passportSign,
\* getPublicKey and getPublicKeyHash and every (status, size, buffer) the native
\* call reports, the payload is non-empty if and only if status == 0.
C5_PayloadIffStatusZero ==
    call.made => (call.res.data # << >> <=> call.res.status = 0)

\* C5 as amended: the status is the native status; the payload is empty whenever
\* status != 0, and when status == 0 it is the size bytes of the native buffer
\* (non-empty exactly when size > 0).
C5_PayloadEmptyUnlessStatusZero ==
    call.made =>
        LET o == call.in.outcome
        IN  /\ call.res.status = o.status
            /\ call.res.status # 0 => call.res.data = << >>
            /\ call.res.status = 0 =>
                  /\ Len(call.res.data) = o.size
                  /\ call.res.data = o.buf

C5_Witness ==
    /\ call.made
    /\ call.fn = "passportSign"
    /\ call.res.status # 0
    /\ call.in.outcome.size > 0
    /\ ~call.in.outcome.null
    /\ call.res.data = << >>

\* C9: when the storage of a secure buffer, of either element type and any
\* length, is returned to the allocator, every byte of it has been overwritten
\* with zero: a freed block holds only zeros at the moment of ::operator delete.
C9_ZeroedBeforeFree ==
    \A b \in Blocks :
        heap[b].state = "freed" =>
            /\ Len(heap[b].bytes) = heap[b].n * sizeof(heap[b].T)
            /\ \A i \in DOMAIN heap[b].bytes : heap[b].bytes[i] = 0

C9_Witness ==
    /\ heap[1].state = "freed" /\ heap[1].held /\ heap[1].T = "wchar_t"
    /\ heap[2].state = "freed" /\ heap[2].held /\ heap[2].n = 3
    /\ \A i \in DOMAIN heap[2].bytes : heap[2].bytes[i] = 0

\* C10: in every caller-facing operation a value holding secret material
\* (password, key material, challenge, signature) is stored only in zeroizing
\* secure containers from the point it is received or produced until the result
\* is returned; it is never held in a non-zeroizing container.
C10_SecretsOnlyInSecureContainers ==
    \A h \in call.held : Zeroizing(h.type)

-----------------------------------------------------------------------------
(* Properties of the synchronous handlers' results *)

BiometricHandlers == {"createPassportKey", "passportSign", "getPublicKey", "getPublicKeyHash"}

\* the hex text among the arguments of a handler that takes one
HexArgument(c) == IF c.fn = "passportSign" THEN c.in.args[2] ELSE c.in.args[1]

\* the call was given a text that is no hex text where one is required
MalformedArguments(c) ==
    /\ c.fn \in {"passportSign", "decryptPassword", "passwordEncrypted"}
    /\ ~AllHex(HexArgument(c))

\* the platform could not tell whether the data or the entry is encrypted
CouldNotDetermine(c) ==
    \/ c.fn = "passwordEncrypted" /\ ~c.in.outcome.ok
    \/ c.fn = "credentialEncrypted" /\ c.in.outcome.threw

\* the underlying service reported that the operation failed
ServiceFailed(c) ==
    CASE c.fn \in BiometricHandlers ->
             ~MalformedArguments(c) /\ ~c.in.outcome.threw /\ c.in.outcome.status # 0
      [] c.fn \in {"writeCredential", "removeCredential"} -> c.in.outcome = FALSE
      [] c.fn = "encryptPassword" -> ~c.in.outcome.ok
      [] c.fn = "decryptPassword" -> ~MalformedArguments(c) /\ ~c.in.outcome.ok
      [] OTHER -> FALSE

\* the handler returned, and what it returned says the operation failed
ReportsFailure(c) ==
    /\ ~c.ret.threw
    /\ CASE c.fn \in BiometricHandlers -> c.ret.value.status # 0 /\ ~c.ret.value.ok
          [] c.fn \in {"writeCredential", "removeCredential"} -> c.ret.value = FALSE
          [] OTHER -> FALSE

\* C11: every synchronous handler reports a failure of the underlying service
\* through the status or the boolean it returns; it throws only when its
\* arguments are malformed or when the encrypted-status query could not
\* determine the state.
C11_FailureThroughResult ==
    call.fn # "none" =>
        /\ ServiceFailed(call) => ReportsFailure(call)
        /\ call.ret.threw => MalformedArguments(call) \/ CouldNotDetermine(call)

\* C12: when passwords::encrypt or passwords::decrypt returns false the
\* secure_wstring it was given holds exactly the value it held before the call;
\* the string is replaced, by what the platform call wrote, only when the call
\* returns true.
C12_UnchangedOnFailure ==
    call.prot.made =>
        /\ ~call.prot.ret => call.prot.after = call.prot.before
        /\ call.prot.after # call.prot.before => call.prot.ret
        /\ call.prot.ret => call.prot.after = call.in.outcome.out

C12_Witness ==
    /\ call.fn = "encryptPassword"
    /\ call.prot.made
    /\ ~call.prot.ret
    /\ call.prot.before = <<112, 8364>>
    /\ call.prot.after = <<112, 8364>>

\* C13: passwords::isEncrypted, as passwordEncrypted calls it on a well-formed
\* text, raises an error whenever the platform call could not determine the
\* state, and returns the platform's answer, true or false, unchanged whenever
\* it could; an indeterminate query is never answered with false.
C13_IndeterminateIsAnError ==
    (call.fn = "passwordEncrypted" /\ ~MalformedArguments(call)) =>
        /\ ~call.in.outcome.ok =>
              /\ call.ret.threw
              /\ call.ret.error = <<"Could not check if data is encrypted">>
        /\ call.in.outcome.ok =>
              /\ ~call.ret.threw
              /\ call.ret.value = call.in.outcome.res

C13_Witness ==
    /\ call.fn = "passwordEncrypted"
    /\ call.in.args = <<<<55, 48, 48, 48>>>>
    /\ ~call.in.outcome.ok
    /\ ~call.in.outcome.res
    /\ call.ret.threw

\* C14: readCredential for a target with no vault entry returns the null marker
\* and raises no error; it returns an object, holding the user name and the
\* password of the entry, only when the vault returned an entry.
C14_NotFoundIsNull ==
    call.fn = "readCredential" =>
        /\ ~call.ret.threw
        /\ IF call.in.outcome.found
           THEN call.ret.value = [username |-> call.in.outcome.username,
                                  password |-> call.in.outcome.pass]
           ELSE call.ret.value = JsNull

C14_Witness ==
    /\ call.fn = "readCredential"
    /\ ~call.in.outcome.found
    /\ ~call.ret.threw
    /\ call.ret.value = JsNull

-----------------------------------------------------------------------------
(* Properties of the native buffers *)

\* how often a statement ran
CountOf(steps, x) == Cardinality({i \in DOMAIN steps : steps[i] = x})

\* where a statement ran first, 0 when it did not run
StepOf(steps, x) ==
    IF \E i \in DOMAIN steps : steps[i] = x
    THEN CHOOSE i \in DOMAIN steps : steps[i] = x /\ \A j \in 1..(i - 1) : steps[j] # x
    ELSE 0

\* x ran exactly once, after every statement of before that ran, and before the
\* operation returned
ReleasedOnce(steps, x, before) ==
    /\ CountOf(steps, x) = 1
    /\ \A b \in before : StepOf(steps, b) < StepOf(steps, x)
    /\ \A i \in DOMAIN steps : steps[i] = "return" => StepOf(steps, x) < i

\* the biometric call handed a buffer back
BufferHandedBack(c) ==
    /\ c.fn \in BiometricHandlers
    /\ ~MalformedArguments(c)
    /\ ~c.in.outcome.threw
    /\ ~c.in.outcome.null

\* C15: every native-owned buffer handed back by a biometric call or by the
\* vault read is released exactly once, after its content was copied and before
\* the operation returns, on every exit path: success status, failure status
\* and a failure while copying.
C15_NativeBufferReleasedOnce ==
    /\ BufferHandedBack(call) =>
          /\ call.freed = 1
          /\ ReleasedOnce(call.steps, "freeData", {"resize", "memcpy"})
    /\ (call.fn = "readCredential" /\ call.in.outcome.found) =>
          /\ call.freed = 2
          /\ ReleasedOnce(call.steps, "deleteWstring", {"copy password"})
          /\ ReleasedOnce(call.steps, "freePcred", {"copy password", "copy username"})

-----------------------------------------------------------------------------
(* Properties of the requests in flight *)

InFlight(r) == pc[r] \in {"queued", "executing", "executed"}

\* C16: the account id and the challenge a worker passes to the native call are
\* the values the caller supplied when it issued the async call: the worker
\* holds its own copies from Queued on, the handler's copies are gone by then,
\* and no step taken while the request is in flight changes the worker's copies.
C16_SnapshotAtQueued ==
    /\ [](\A r \in Requests :
            /\ pc[r] # "none" =>
                  /\ caller[r].locals = "destroyed"
                  /\ worker[r].account = caller[r].account
                  /\ worker[r].challenge = caller[r].challenge
            /\ native[r].called =>
                  /\ native[r].account = caller[r].account
                  /\ native[r].challenge = string_to_binary(caller[r].challenge).bytes)
    /\ [][\A r \in Requests :
            InFlight(r) =>
                /\ worker'[r].account = worker[r].account
                /\ worker'[r].challenge = worker[r].challenge
                /\ caller'[r] = caller[r]]_vars

C16_Witness ==
    /\ pc[1] = "executed"
    /\ worker[1].kind = "sign"
    /\ native[1].called
    /\ native[1].challenge = <<10>>
    /\ caller[1] = Arguments("alice", <<48, 65>>)
    /\ pc[2] = "done"

\* what the synchronous handler of the same operation returns for a native outcome
SyncReturn(w, outcome) ==
    IF w.kind = "sign"
    THEN BiometricCall("passportSign", Input(<<w.account, w.challenge>>, outcome),
                       passport_passportSign(outcome, FALSE), {}).ret.value
    ELSE BiometricCall("createPassportKey", Input(<<w.account>>, outcome),
                       passport_createPassportKey(outcome, FALSE), {}).ret.value

\* the native call of a request returned a status and a payload, and the copy
\* of the payload succeeded
NativeAnswered(r) ==
    native[r].called /\ ~native[r].outcome.threw /\ native[r].raised.kind = "none"

\* C17: for every native outcome (status, payload) of create-key or sign, the
\* object the async variant resolves with equals the object the sync variant
\* returns: status is the native status, ok is true exactly when status == 0,
\* data is the hex encoding of the payload when status == 0 and null otherwise.
C17_AsyncEqualsSync ==
    \A r \in Requests :
        (pc[r] = "done" /\ NativeAnswered(r)) =>
            LET o == native[r].outcome
                v == promise[r].value
            IN  /\ promise[r].state = "resolved"
                /\ v = SyncReturn(worker[r], o)
                /\ v.status = o.status
                /\ v.ok = (o.status = 0)
                /\ v.null = (o.status # 0)
                /\ o.status = 0 => v.data = binary_to_string(SubSeq(o.buf, 1, o.size))

C17_Witness ==
    /\ pc[1] = "done" /\ worker[1].kind = "create" /\ NativeAnswered(1)
    /\ native[1].outcome.status = 0 /\ native[1].outcome.size = 1
    /\ promise[1].value.data = <<65, 66>>
    /\ pc[2] = "done" /\ worker[2].kind = "sign" /\ NativeAnswered(2)
    /\ native[2].outcome.status = 3
    /\ promise[2].value.null

\* the message Execute sets for an exception
MessageOf(e) == IF e.kind = "std" THEN e.what ELSE <<"An unknown exception occurred">>

\* C18: with several requests in flight and their Execute and completion steps
\* interleaved in any order, each promise is settled with the status and data
\* of the native call made for its own request, or with the error raised in its
\* own Execute; a step of one request changes nothing of another request.
C18_NoCrossTalk ==
    /\ [](\A r \in Requests :
            pc[r] = "done" =>
                IF promise[r].state = "resolved"
                THEN /\ NativeAnswered(r)
                     /\ promise[r].value.status = native[r].outcome.status
                     /\ native[r].outcome.status = 0 =>
                           promise[r].value.data =
                               binary_to_string(SubSeq(native[r].outcome.buf, 1,
                                                       native[r].outcome.size))
                ELSE /\ promise[r].state = "rejected"
                     /\ native[r].raised.kind # "none"
                     /\ promise[r].value = MessageOf(native[r].raised))
    /\ [][\A r \in Requests :
            pc'[r] # pc[r] =>
                \A q \in Requests \ {r} :
                    /\ pc'[q] = pc[q]
                    /\ worker'[q] = worker[q]
                    /\ promise'[q] = promise[q]
                    /\ native'[q] = native[q]]_vars

C18_Witness ==
    /\ pc[2] = "done" /\ promise[2].state = "resolved"
    /\ native[2].outcome.status = 0 /\ promise[2].value.data = <<65, 66>>
    /\ pc[1] = "executed" /\ promise[1].state = "pending"
    /\ native[1].outcome.status = 3 /\ worker[1].status = 3

====
